---------------------------- MODULE Spec2Model ----------------------------
(***************************************************************************)
(* State-machine model of the RFP assistant backend:                       *)
(*   src/unnamed/part_000   (direct-protocol gateway, MOCK_MODE)           *)
(*   src/excelProcessor.js  (SDK gateway with direct-protocol fallback)    *)
(*                                                                         *)
(* Text is modelled as a sequence of one-character strings, so that        *)
(* slicing, trimming, lower-casing and pattern matching are computed.      *)
(***************************************************************************)
EXTENDS Integers, Sequences, FiniteSets, TLC

(***************************************************************************)
(* Bounds of the model.                                                    *)
(***************************************************************************)
\* attempts per behaviour that a reachable service fails (transient faults)
MaxFaults == 3
\* data rows of the large workbook (more than one batch)
MaxRows == 12
\* calls to processExcelRFP per behaviour
MaxRuns == 2
\* largest maxRetries the retry harness tries
MaxAttempts == 4
\* matches a store query returns at most
MaxMatches == 2
\* data rows of the first sheet when the extraction is applied on its own
MaxSheetRows == 3

(***************************************************************************)
(* Text helpers.                                                           *)
(***************************************************************************)
Min(a, b) == IF a <= b THEN a ELSE b

UpperChars == <<"A","B","C","D","E","F","G","H","I","J","K","L","M",
                "N","O","P","Q","R","S","T","U","V","W","X","Y","Z">>
LowerChars == <<"a","b","c","d","e","f","g","h","i","j","k","l","m",
                "n","o","p","q","r","s","t","u","v","w","x","y","z">>

\* String.prototype.toLowerCase on one character
LowerChar(c) ==
    IF \E k \in 1..Len(UpperChars) : UpperChars[k] = c
    THEN LowerChars[CHOOSE k \in 1..Len(UpperChars) : UpperChars[k] = c]
    ELSE c

\* String.prototype.toLowerCase
ToLowerCase(s) == [k \in 1..Len(s) |-> LowerChar(s[k])]

\* the characters \s matches (the ones the model's texts use)
WhiteSpace == {" ", "\t", "\n", "\r"}

\* String.prototype.trim
Trim(s) ==
    LET keep == {k \in 1..Len(s) : s[k] \notin WhiteSpace}
    IN  IF keep = {} THEN << >>
        ELSE LET lo == CHOOSE k \in keep : \A j \in keep : k <= j
                 hi == CHOOSE k \in keep : \A j \in keep : j <= k
             IN  SubSeq(s, lo, hi)

\* String.prototype.slice(0, n)
Slice0(s, n) == SubSeq(s, 1, Min(n, Len(s)))

\* String.prototype.includes
Includes(s, w) ==
    \E k \in 1..(Len(s) - Len(w) + 1) : SubSeq(s, k, k + Len(w) - 1) = w

\* Array.prototype.join over a sequence of texts
RECURSIVE Join(_, _)
Join(parts, sep) ==
    IF parts = << >> THEN << >>
    ELSE IF Len(parts) = 1 THEN parts[1]
    ELSE parts[1] \o sep \o Join(Tail(parts), sep)

\* Array.prototype.filter
RECURSIVE SelectIdx(_, _)
SelectIdx(n, keep) ==
    IF n = 0 THEN << >>
    ELSE IF n \in keep THEN Append(SelectIdx(n - 1, keep), n)
    ELSE SelectIdx(n - 1, keep)

(***************************************************************************)
(* Spreadsheet documents.  A worksheet is a name and a grid of rows; row 1 *)
(* holds the headers.  A cell is Null (empty, not visited by eachCell) or  *)
(* its rendered text.                                                      *)
(***************************************************************************)
Null == "null"

T_Category      == <<"C","a","t","e","g","o","r","y">>
T_Q             == <<"Q">>
T_undefined     == <<"u","n","d","e","f","i","n","e","d">>
T_uncategorized == <<"u","n","c","a","t","e","g","o","r","i","z","e","d">>
T_A             == <<"A">>
T_B             == <<"B">>
T_S1            == <<"S","1">>
T_S2            == <<"S","2">>

RowChars == <<"a","b","c","d","e","f","g","h","i","j","k","l","m","n","o","p">>

\* row k of the large sheet: rows 2 and BATCH_SIZE+1 repeat row 1
BigKey(k) == IF k = 2 \/ k = 11 THEN 1 ELSE k
BigRow(k) == <<T_A, <<"q", RowChars[BigKey(k)]>>>>

WbEmpty == << [name |-> T_S1, rows |-> << <<T_Category, T_Q>> >>] >>

\* interleaved categories, a padded cell, a row without Category,
\* a row whose Category cell is blank text, and a second sheet
WbMixed ==
    << [name |-> T_S1,
        rows |-> << <<<<" ">> \o T_Category, T_Q \o <<" ">>, Null>>,
                    <<T_A, <<"x">>>>,
                    <<T_B, <<"y", " ">>>>,
                    <<T_A, <<"z">>>>,
                    <<Null, <<"w">>>>,
                    <<<<" ">>, <<"v">>>>,
                    <<Null, Null, <<"o">>>> >>],
       [name |-> T_S2,
        rows |-> << <<T_Category, T_Q>>,
                    <<T_A, <<"x">>>> >>] >>

WbBig ==
    << [name |-> T_S1,
        rows |-> << <<T_Category, T_Q>> >> \o [k \in 1..MaxRows |-> BigRow(k)]] >>

\* "corrupt" names a buffer that workbook.xlsx.load rejects
WorkbookNames == {"empty", "mixed", "big", "corrupt"}

Workbook(w) ==
    CASE w = "empty" -> WbEmpty
      [] w = "mixed" -> WbMixed
      [] w = "big"   -> WbBig
      [] OTHER       -> << >>

\* workbook.xlsx.load resolves
Loads(w) == w # "corrupt"

(***************************************************************************)
(* Record extraction (processExcelRFP, first half).                        *)
(***************************************************************************)
\* headers = worksheet.getRow(1).values.slice(1).map(h => h ? h.trim() : '')
Headers(sheet) ==
    LET r == sheet.rows[1]
    IN  [c \in 1..Len(r) |-> IF r[c] = Null \/ r[c] = << >> THEN << >> ELSE Trim(r[c])]

\* rowData[header] = value on an insertion-ordered object
SetField(obj, key, val) ==
    IF \E k \in 1..Len(obj) : obj[k].key = key
    THEN [k \in 1..Len(obj) |-> IF obj[k].key = key THEN [key |-> key, val |-> val] ELSE obj[k]]
    ELSE Append(obj, [key |-> key, val |-> val])

\* row.eachCell: the non-empty cells, left to right, under a non-empty header
RECURSIVE RowData(_, _, _)
RowData(headers, row, n) ==
    IF n = 0 THEN << >>
    ELSE LET prev == RowData(headers, row, n - 1)
         IN  IF row[n] # Null /\ n <= Len(headers) /\ headers[n] # << >>
             THEN SetField(prev, headers[n], Trim(row[n]))
             ELSE prev

\* worksheet.eachRow: rows after the header row that yield a non-empty object
JsonData(sheet) ==
    LET hs   == Headers(sheet)
        objs == [r \in 1..Len(sheet.rows) |-> RowData(hs, sheet.rows[r], Len(sheet.rows[r]))]
        keep == {r \in 2..Len(sheet.rows) : objs[r] # << >>}
        idx  == SelectIdx(Len(sheet.rows), keep)
    IN  [k \in 1..Len(idx) |-> objs[idx[k]]]

\* item.Category as a property key: a missing field groups under "undefined"
CategoryKey(item) ==
    IF \E k \in 1..Len(item) : item[k].key = T_Category
    THEN item[CHOOSE k \in 1..Len(item) : item[k].key = T_Category].val
    ELSE T_undefined

\* _.groupBy(jsonData, 'Category'): groups in order of first occurrence,
\* each keeping its rows in row order
RECURSIVE GroupKeys(_, _)
GroupKeys(items, n) ==
    IF n = 0 THEN << >>
    ELSE LET prev == GroupKeys(items, n - 1)
             key  == CategoryKey(items[n])
         IN  IF \E k \in 1..Len(prev) : prev[k] = key THEN prev ELSE Append(prev, key)

GroupBy(items) ==
    LET keys == GroupKeys(items, Len(items))
    IN  [g \in 1..Len(keys) |->
            [category |-> keys[g],
             items |-> LET idx == SelectIdx(Len(items),
                                            {k \in 1..Len(items) : CategoryKey(items[k]) = keys[g]})
                       IN  [k \in 1..Len(idx) |-> items[idx[k]]]]]

\* Object.entries(item).filter(value truthy string).map(`${key}: ${value}`).join('\n')
CombinedText(item) ==
    LET idx == SelectIdx(Len(item), {k \in 1..Len(item) : item[k].val # << >>})
    IN  Join([k \in 1..Len(idx) |-> item[idx[k]].key \o <<":", " ">> \o item[idx[k]].val],
             <<"\n">>)

\* the records one group pushes
GroupRecords(sheetName, group) ==
    LET idx == SelectIdx(Len(group.items),
                         {k \in 1..Len(group.items) : Trim(CombinedText(group.items[k])) # << >>})
    IN  [k \in 1..Len(idx) |->
            [category     |-> IF group.category = << >> THEN T_uncategorized ELSE group.category,
             sheetName    |-> sheetName,
             text         |-> CombinedText(group.items[idx[k]]),
             originalData |-> group.items[idx[k]]]]

\* faulty variant of Flatten: the parts are concatenated last to first
RECURSIVE Flatten_Reversed(_)
Flatten_Reversed(seqs) ==
    IF seqs = << >> THEN << >> ELSE Flatten_Reversed(Tail(seqs)) \o seqs[1]

RECURSIVE Flatten(_)
Flatten(seqs) == IF seqs = << >> THEN << >> ELSE seqs[1] \o Flatten(Tail(seqs))

SheetRecords(sheet) ==
    LET groups == GroupBy(JsonData(sheet))
    IN  Flatten([g \in 1..Len(groups) |-> GroupRecords(sheet.name, groups[g])])

\* processedData after the worksheet loop
Extract(workbook) == Flatten([s \in 1..Len(workbook) |-> SheetRecords(workbook[s])])


(***************************************************************************)
(* Stable identifier.  md5 is taken to be injective: the digest is         *)
(* represented by the content it is computed from.                         *)
(***************************************************************************)
IdPrefixLen == 50

\* faulty variant of GenerateStableId: the sheet name is left out of the content
GenerateStableId_NoSheet(metadata, item) ==
    metadata.rfpId \o <<"-">> \o item.category \o <<"-">> \o Slice0(item.text, IdPrefixLen)

GenerateStableId(metadata, item) ==
    metadata.rfpId \o <<"-">> \o item.sheetName \o <<"-">> \o item.category
        \o <<"-">> \o Slice0(item.text, IdPrefixLen)

(***************************************************************************)
(* State.                                                                  *)
(***************************************************************************)
VARIABLES
    impl,             \* which source file runs: "part_000" or "excelProcessor"
    pineconeIndex,    \* excelProcessor.js: the SDK index was initialized
    storeUp,          \* environment: the vector store is reachable
    MOCK_MODE,        \* part_000: the degraded-mode flag
    probePc,          \* the startup probe that sets MOCK_MODE: "pending", "done"
                      \* ("none": excelProcessor.js, whose probe only logs)
    faults,           \* transient remote failures injected so far
    pc,               \* where the running call is suspended ("idle": none)
    retry,            \* the frame of the running withRetry call
    called,           \* remote capabilities invoked by the running call
    result,           \* what the latest call returned or threw
    store,            \* ids held by the vector index
    run,              \* processExcelRFP calls started
    input,            \* arguments of the running processExcelRFP call
    processedData,    \* the records extracted by the running call
    prev,             \* summary of the previous processExcelRFP call
    itemNo,           \* index in processedData of the item being handled
    batchOperations,  \* records staged for the current batch
    processedRows,
    skippedRows,
    errorRows,
    itemOutcome,      \* per item handled in this run: staged, skipped or error
    upserts,          \* payloads of the upsert calls of this run
    failed,           \* operations whose withRetry threw in the running call
    question,         \* arguments of the running queryRFPData call
    filters,
    qDegraded,        \* MOCK_MODE as it was when the running queryRFPData call was made
    queries,          \* store queries issued by the running queryRFPData call
    contexts,         \* the SourceContext list the running call built
    fnArgs,           \* arguments handed to a function applied on its own
    fnOut             \* what that function returned (<< >>: not applied yet)

ingestVars == <<run, input, processedData, prev, itemNo, batchOperations, processedRows,
                skippedRows, errorRows, itemOutcome, upserts>>
queryVars  == <<question, filters, qDegraded, queries, contexts>>
envVars    == <<impl, pineconeIndex, storeUp>>
fnVars     == <<fnArgs, fnOut>>
vars == <<impl, pineconeIndex, storeUp, MOCK_MODE, probePc, faults, pc, retry,
          called, result, store, run, input, processedData, prev, itemNo,
          batchOperations, processedRows, skippedRows, errorRows, itemOutcome, upserts,
          failed, question, filters, qDegraded, queries, contexts, fnArgs, fnOut>>

(***************************************************************************)
(* Values.                                                                 *)
(***************************************************************************)
NoError   == [op |-> "none", via |-> "none", attempt |-> 0]
Undefined == [tag |-> "undefined", vectors |-> {}, matches |-> << >>]

IdleRetry ==
    [op |-> "none", via |-> "none", arg |-> << >>, maxRetries |-> 0, i |-> 0,
     delay |-> 0, initialDelay |-> 0, sleeps |-> << >>, invocations |-> 0,
     status |-> "idle", value |-> Undefined, error |-> NoError, errors |-> << >>]

NoStats  == [totalItems |-> 0, processed |-> 0, skipped |-> 0, errors |-> 0]
NoAnswer == [text |-> "none", echo |-> << >>]
\* kind: "stats" (processExcelRFP returned), "answer" (queryRFPData returned),
\* "thrown" (the call rejected), "none" (no call has settled yet).
\* mockMode = FALSE and error = NoError stand for an absent field.
NoResult == [kind |-> "none", success |-> FALSE, stats |-> NoStats,
             mockMode |-> FALSE, error |-> NoError, answer |-> NoAnswer,
             sources |-> << >>]

\* degraded records MOCK_MODE as it was when the call was made
NoInput == [wb |-> "none", rfpId |-> << >>, degraded |-> FALSE]
NoPrev  == [input |-> NoInput, failed |-> {}, mock |-> FALSE, returned |-> FALSE]

\* the (spreadsheet, metadata.rfpId) pairs the caller submits
Inputs == {<<"empty", <<"r","1">>>>, <<"mixed", <<"r","1">>>>,
           <<"big", <<"r","1">>>>, <<"corrupt", <<"r","1">>>>}

(***************************************************************************)
(* What the remote index and the completion capability answer.             *)
(***************************************************************************)
\* a metadata field the stored record does not have
UndefinedText == <<"undefined">>
OrElse(v, default) == IF v = UndefinedText \/ v = << >> THEN default ELSE v

\* JSON.stringify of a row object, and stored strings that are no JSON
JsonStringify(obj) == [kind |-> "json", value |-> obj]
MalformedJson == [kind |-> "malformed", value |-> << >>]
UndefinedJson == [kind |-> "undefined", value |-> << >>]
\* JSON.parse throws on anything but the text of a JSON value
JsonParseThrows(str) == str.kind # "json"
JsonParse(str) == str.value

MGood ==
    [score |-> 90,
     metadata |-> [text |-> <<"t">>, category |-> T_A, sheetName |-> T_S1,
                   originalData |-> JsonStringify(<<[key |-> T_Q, val |-> <<"x">>]>>)]]
MBadJson ==
    [score |-> 80,
     metadata |-> [text |-> <<"u">>, category |-> T_B, sheetName |-> T_S2,
                   originalData |-> MalformedJson]]
MBare ==
    [score |-> 70,
     metadata |-> [text |-> UndefinedText, category |-> UndefinedText,
                   sheetName |-> UndefinedText, originalData |-> UndefinedJson]]
MatchKinds == {MGood, MBadJson, MBare}

\* what the store answers to a query
QueryResponses ==
    {[tag |-> "nomatchesfield", vectors |-> {}, matches |-> << >>]}
    \cup {[tag |-> "matches", vectors |-> {}, matches |-> m] :
             m \in UNION {[1..n -> MatchKinds] : n \in 0..MaxMatches}}

\* what the completion capability answers: choices[0].message.content, or no choice
CompletionResponses ==
    {[tag |-> "completion", vectors |-> {}, matches |-> << >>],
     [tag |-> "nochoices", vectors |-> {}, matches |-> << >>]}

(***************************************************************************)
(* Retry executor.                                                         *)
(***************************************************************************)
DefaultMaxRetries == 3
DefaultDelay == 1000

\* withRetry(operation, maxRetries, delay): the frame on entry
WithRetry(op, via, arg, maxRetries, delay) ==
    [IdleRetry EXCEPT !.op = op, !.via = via, !.arg = arg, !.maxRetries = maxRetries,
                      !.delay = delay, !.initialDelay = delay, !.status = "running"]

\* one iteration of the loop whose attempt succeeded
AttemptReturns(r, value) ==
    [r EXCEPT !.invocations = @ + 1, !.status = "returned", !.value = value]

\* faulty variant of AttemptThrows: the delay is not doubled between attempts
AttemptThrows_FixedDelay(r, e) ==
    IF r.i = r.maxRetries - 1
    THEN [r EXCEPT !.invocations = @ + 1, !.errors = Append(@, e),
                   !.status = "thrown", !.error = e]
    ELSE [r EXCEPT !.invocations = @ + 1, !.errors = Append(@, e),
                   !.sleeps = Append(@, r.delay), !.i = @ + 1]

\* faulty variant of AttemptThrows: the first error is rethrown, not the last
AttemptThrows_FirstError(r, e) ==
    IF r.i = r.maxRetries - 1
    THEN [r EXCEPT !.invocations = @ + 1, !.errors = Append(@, e),
                   !.status = "thrown", !.error = Append(r.errors, e)[1]]
    ELSE [r EXCEPT !.invocations = @ + 1, !.errors = Append(@, e),
                   !.sleeps = Append(@, r.delay), !.delay = @ * 2, !.i = @ + 1]

\* one iteration of the loop whose attempt failed with error e
AttemptThrows(r, e) ==
    IF r.i = r.maxRetries - 1
    THEN [r EXCEPT !.invocations = @ + 1, !.errors = Append(@, e),
                   !.status = "thrown", !.error = e]
    ELSE [r EXCEPT !.invocations = @ + 1, !.errors = Append(@, e),
                   !.sleeps = Append(@, r.delay), !.delay = @ * 2, !.i = @ + 1]

\* the loop condition i < maxRetries is false: the function returns undefined
LoopExits(r) == [r EXCEPT !.status = "returned", !.value = Undefined]

RetryDone == retry.status \in {"returned", "thrown"}

StoreOps == {"fetch", "upsert", "query"}

\* the capability an operation calls
Capability(op) ==
    CASE op \in StoreOps  -> "store"
      [] op = "embed"     -> "embed"
      [] op = "complete"  -> "complete"
      [] OTHER            -> "operation"

\* what a successful attempt of the running operation resolves to
Responses(r) ==
    CASE r.op = "fetch" ->
            {[tag |-> "fetch", vectors |-> {r.arg[k] : k \in 1..Len(r.arg)} \cap store,
              matches |-> << >>]}
            \cup (IF \A k \in 1..Len(r.arg) : r.arg[k] \notin store
                  THEN {[tag |-> "fetch_novectors", vectors |-> {}, matches |-> << >>]}
                  ELSE {})
      [] r.op = "upsert" -> {[tag |-> "upserted", vectors |-> {}, matches |-> << >>]}
      [] r.op = "embed"  -> {[tag |-> "embedding", vectors |-> {}, matches |-> << >>]}
      [] r.op = "query"    -> QueryResponses
      [] r.op = "complete" -> CompletionResponses
      [] OTHER           -> {[tag |-> "value", vectors |-> {}, matches |-> << >>]}

\* the store after a successful attempt of the running operation
StoreAfter(r) ==
    IF r.op = "upsert" THEN store \cup {r.arg[k] : k \in 1..Len(r.arg)} ELSE store

\* an attempt of the running operation resolves or rejects
WithRetryStep ==
    /\ retry.status = "running"
    /\ \/ /\ retry.i >= retry.maxRetries
          /\ retry' = LoopExits(retry)
          /\ UNCHANGED <<faults, called, store>>
       \/ /\ retry.i < retry.maxRetries
          /\ Capability(retry.op) = "store" => storeUp
          /\ \E v \in Responses(retry) : retry' = AttemptReturns(retry, v)
          /\ store' = StoreAfter(retry)
          /\ called' = called \cup {Capability(retry.op)}
          /\ UNCHANGED faults
       \/ /\ retry.i < retry.maxRetries
          /\ \/ /\ \/ Capability(retry.op) = "store" /\ ~storeUp
                   \/ Capability(retry.op) = "operation"
                /\ UNCHANGED faults
             \/ /\ faults < MaxFaults
                /\ faults' = faults + 1
          /\ retry' = AttemptThrows(retry, [op |-> retry.op, via |-> retry.via,
                                            attempt |-> retry.i + 1])
          /\ called' = called \cup {Capability(retry.op)}
          /\ UNCHANGED store
    /\ UNCHANGED <<envVars, fnVars, MOCK_MODE, probePc, pc, result, failed, ingestVars, queryVars>>

(***************************************************************************)
(* Startup connectivity probe.                                             *)
(***************************************************************************)
\* faulty variant of StartupProbe: the probe is repeated and rewrites the flag
StartupProbe_Periodic ==
    /\ probePc = "pending"
    /\ \E isConnected \in BOOLEAN :
          /\ isConnected => storeUp
          /\ UNCHANGED faults
          /\ MOCK_MODE' = ~isConnected
    /\ probePc' = "pending"
    /\ UNCHANGED <<envVars, fnVars, pc, retry, called, result, store, failed, ingestVars,
                   queryVars>>

\* pineconeApi.testConnectivity resolves: true only from a reachable store
StartupProbe ==
    /\ probePc = "pending"
    /\ \E isConnected \in BOOLEAN :
          /\ isConnected => storeUp
          /\ UNCHANGED faults
          /\ MOCK_MODE' = IF ~isConnected THEN TRUE ELSE MOCK_MODE
    /\ probePc' = "done"
    /\ UNCHANGED <<envVars, fnVars, pc, retry, called, result, store, failed, ingestVars,
                   queryVars>>

(***************************************************************************)
(* processExcelRFP.                                                        *)
(***************************************************************************)
BATCH_SIZE == 10

TotalItems == Len(processedData)
Metadata == [rfpId |-> input.rfpId]
VectorIdOf(data, k) == GenerateStableId(Metadata, data[k])
VectorId(k) == VectorIdOf(processedData, k)

\* the gateway the ingestion calls go through
IngestVia == IF impl = "excelProcessor" /\ pineconeIndex THEN "sdk" ELSE "api"

\* faulty variant of LastOfBatch: the staged records are uploaded once, after the
\* last item
LastOfBatch_OnlyAtEnd(k) == k = TotalItems

\* _.chunk: item k is the last of its batch
LastOfBatch(k) == k % BATCH_SIZE = 0 \/ k = TotalItems

Stats == [totalItems |-> TotalItems, processed |-> processedRows,
          skipped |-> skippedRows, errors |-> errorRows]

\* the call: runs until workbook.xlsx.load is awaited
ProcessExcelRFP ==
    /\ pc = "idle"
    /\ run < MaxRuns
    /\ \E in \in Inputs :
          input' = [wb |-> in[1], rfpId |-> in[2], degraded |-> MOCK_MODE]
    /\ prev' = IF run = 0 THEN NoPrev
               ELSE [input |-> input, failed |-> failed,
                     mock |-> result.mockMode, returned |-> result.kind = "stats"]
    /\ run' = run + 1
    /\ pc' = "loading"
    /\ processedData' = << >>
    /\ retry' = IdleRetry
    /\ called' = {}
    /\ result' = NoResult
    /\ itemNo' = 0
    /\ batchOperations' = << >>
    /\ processedRows' = 0
    /\ skippedRows' = 0
    /\ errorRows' = 0
    /\ itemOutcome' = << >>
    /\ upserts' = << >>
    /\ failed' = {}
    /\ UNCHANGED <<envVars, fnVars, MOCK_MODE, probePc, faults, store, queryVars>>

\* faulty variant of ReturnStatsOf: the flag as it is on return is reported
ReturnStatsOf_CurrentFlag(total, p, s, e) ==
    /\ pc' = "idle"
    /\ result' = [NoResult EXCEPT !.kind = "stats", !.success = TRUE,
                     !.stats = [totalItems |-> total, processed |-> p,
                                skipped |-> s, errors |-> e],
                     !.mockMode = MOCK_MODE]
    /\ retry' = IdleRetry

\* return { success, stats, sheets }
ReturnStatsOf(total, p, s, e) ==
    /\ pc' = "idle"
    /\ result' = [NoResult EXCEPT !.kind = "stats", !.success = TRUE,
                     !.stats = [totalItems |-> total, processed |-> p,
                                skipped |-> s, errors |-> e]]
    /\ retry' = IdleRetry

ReturnStats(p, s, e) == ReturnStatsOf(TotalItems, p, s, e)

\* faulty variant of ReturnMock: the simulated rows are not reported as processed
ReturnMock_NothingProcessed(total) ==
    /\ pc' = "idle"
    /\ result' = [NoResult EXCEPT !.kind = "stats", !.success = TRUE,
                     !.stats = [totalItems |-> total, processed |-> 0,
                                skipped |-> 0, errors |-> 0],
                     !.mockMode = TRUE]
    /\ retry' = IdleRetry

\* return { success, stats, sheets, mockMode: true }
ReturnMock(total) ==
    /\ pc' = "idle"
    /\ result' = [NoResult EXCEPT !.kind = "stats", !.success = TRUE,
                     !.stats = [totalItems |-> total, processed |-> total,
                                skipped |-> 0, errors |-> 0],
                     !.mockMode = TRUE]
    /\ retry' = IdleRetry

\* item k: generateStableId, then the fetch is awaited
StartItemOf(data, k) ==
    /\ itemNo' = k
    /\ pc' = "fetching"
    /\ retry' = WithRetry("fetch", IngestVia, <<VectorIdOf(data, k)>>,
                          DefaultMaxRetries, DefaultDelay)
    /\ UNCHANGED result

StartItem(k) == StartItemOf(processedData, k)

\* faulty variant of EndOfBatch: the upload is made even when nothing was staged
EndOfBatch_AlwaysUploads(ops, p, s, e) ==
    /\ pc' = "upserting"
    /\ retry' = WithRetry("upsert", IngestVia, [k \in 1..Len(ops) |-> ops[k].id],
                          DefaultMaxRetries, DefaultDelay)
    /\ upserts' = Append(upserts, ops)
    /\ UNCHANGED <<result, itemNo>>

\* after the last item of a batch: upload what was staged, or go on
EndOfBatch(ops, p, s, e) ==
    IF ops # << >>
    THEN /\ pc' = "upserting"
         /\ retry' = WithRetry("upsert", IngestVia, [k \in 1..Len(ops) |-> ops[k].id],
                               DefaultMaxRetries, DefaultDelay)
         /\ upserts' = Append(upserts, ops)
         /\ UNCHANGED <<result, itemNo>>
    ELSE /\ upserts' = upserts
         /\ IF itemNo = TotalItems
            THEN ReturnStats(p, s, e) /\ UNCHANGED itemNo
            ELSE StartItem(itemNo + 1)

\* the item loop moves on after item itemNo
NextItem(ops, p, s, e) ==
    IF LastOfBatch(itemNo)
    THEN EndOfBatch(ops, p, s, e) /\ batchOperations' = ops
    ELSE StartItem(itemNo + 1) /\ batchOperations' = ops /\ UNCHANGED upserts

\* the error workbook.xlsx.load rejects with
LoadError == [op |-> "load", via |-> "exceljs", attempt |-> 1]

\* faulty variant of Rethrows: the caught error is wrapped in a new one
Rethrows_Wrapped(e) ==
    /\ pc' = "idle"
    /\ result' = [NoResult EXCEPT !.kind = "thrown",
                     !.error = [op |-> "processExcelRFP", via |-> e.op, attempt |-> 0]]

\* the outer catch of processExcelRFP: throw error
Rethrows(e) ==
    /\ pc' = "idle"
    /\ result' = [NoResult EXCEPT !.kind = "thrown", !.error = e]

\* workbook.xlsx.load settles; extraction; the MOCK_MODE branch; the first fetch
Loaded ==
    /\ pc = "loading"
    /\ IF ~Loads(input.wb)
       THEN Rethrows(LoadError) /\ UNCHANGED <<retry, itemNo, processedData>>
       ELSE LET data == Extract(Workbook(input.wb))
            IN  /\ processedData' = data
                /\ IF impl = "part_000" /\ MOCK_MODE
                   THEN ReturnMock(Len(data)) /\ UNCHANGED itemNo
                   ELSE IF Len(data) = 0
                   THEN ReturnStatsOf(0, 0, 0, 0) /\ UNCHANGED itemNo
                   ELSE StartItemOf(data, 1)
    /\ UNCHANGED <<envVars, fnVars, MOCK_MODE, probePc, faults, called, store, run, input, prev,
                   batchOperations, processedRows, skippedRows, errorRows, itemOutcome,
                   upserts, failed, queryVars>>

\* faulty variant of ExistingVector: the fetched record is looked up under a
\* key the response never has
ExistingVector_WrongKey(r) ==
    r.status = "returned" /\ << >> \in r.value.vectors

\* faulty variant of ExistingVector: a failed fetch counts as "already stored"
ExistingVector_FailClosed(r) ==
    \/ r.status = "thrown"
    \/ r.status = "returned" /\ r.arg[1] \in r.value.vectors

\* faulty variant of ExistingVector: the answer of the SDK gateway is read under
\* a field it does not have, so that nothing is ever found through the SDK
ExistingVector_SdkShape(r) ==
    r.status = "returned" /\ r.via # "sdk" /\ r.arg[1] \in r.value.vectors

\* existingVector[vectorId] after the fetch settled (a failed fetch: {})
ExistingVector(r) ==
    r.status = "returned" /\ r.arg[1] \in r.value.vectors

\* the fetch settled: skip the item, or await its embedding
AfterFetch ==
    /\ pc = "fetching"
    /\ RetryDone
    /\ failed' = IF retry.status = "thrown" THEN failed \cup {"fetch"} ELSE failed
    /\ IF ExistingVector(retry)
       THEN /\ skippedRows' = skippedRows + 1
            /\ itemOutcome' = Append(itemOutcome, "skipped")
            /\ NextItem(batchOperations, processedRows, skippedRows + 1, errorRows)
       ELSE /\ pc' = "embedding"
            /\ retry' = WithRetry("embed", "openai", << >>, DefaultMaxRetries, DefaultDelay)
            /\ UNCHANGED <<skippedRows, itemOutcome, batchOperations, upserts, result, itemNo>>
    /\ UNCHANGED <<envVars, fnVars, MOCK_MODE, probePc, faults, called, store, run, input,
                   processedData, prev, processedRows, errorRows, queryVars>>

\* the record pushed on batchOperations
VectorRecord(k) == [id |-> VectorId(k), item |-> k]

\* faulty variant of ItemFailed: the failure discards what the batch had staged
ItemFailed_DropsBatch ==
    /\ errorRows' = errorRows + 1
    /\ itemOutcome' = Append(itemOutcome, "error")
    /\ failed' = failed \cup {"embed"}
    /\ NextItem(<< >>, processedRows, skippedRows, errorRows + 1)
    /\ UNCHANGED processedRows

\* the catch block of one item: count the error, go on with the next item
ItemFailed ==
    /\ errorRows' = errorRows + 1
    /\ itemOutcome' = Append(itemOutcome, "error")
    /\ failed' = failed \cup {"embed"}
    /\ NextItem(batchOperations, processedRows, skippedRows, errorRows + 1)
    /\ UNCHANGED processedRows

\* the embedding settled: stage the record, or count the error
AfterEmbed ==
    /\ pc = "embedding"
    /\ RetryDone
    /\ IF retry.status = "returned"
       THEN /\ processedRows' = processedRows + 1
            /\ itemOutcome' = Append(itemOutcome, "staged")
            /\ NextItem(Append(batchOperations, VectorRecord(itemNo)),
                        processedRows + 1, skippedRows, errorRows)
            /\ UNCHANGED <<errorRows, failed>>
       ELSE ItemFailed
    /\ UNCHANGED <<envVars, fnVars, MOCK_MODE, probePc, faults, called, store, run, input,
                   processedData, prev, skippedRows, queryVars>>

\* faulty variant of UploadErrors: a failed upload counts as one error
UploadErrors_One(r, ops, e) == IF r.status = "thrown" THEN e + 1 ELSE e

\* faulty variant of UploadErrors: errors is set from the batch that was just
\* uploaded instead of being added to
UploadErrors_PerBatch(r, ops, e) == IF r.status = "thrown" THEN Len(ops) ELSE 0

\* errorRows after the upload of the staged records ops settled
UploadErrors(r, ops, e) == IF r.status = "thrown" THEN e + Len(ops) ELSE e

\* faulty variant of AfterUpsert: a batch whose upload failed is uploaded again
AfterUpsert_RetriesBatch ==
    /\ pc = "upserting"
    /\ RetryDone
    /\ IF retry.status = "thrown"
       THEN /\ retry' = WithRetry("upsert", IngestVia, retry.arg,
                                  DefaultMaxRetries, DefaultDelay)
            /\ UNCHANGED <<pc, errorRows, failed, batchOperations, itemNo, result>>
       ELSE /\ UNCHANGED <<errorRows, failed>>
            /\ batchOperations' = << >>
            /\ IF itemNo = TotalItems
               THEN ReturnStats(processedRows, skippedRows, errorRows) /\ UNCHANGED itemNo
               ELSE StartItem(itemNo + 1)
    /\ UNCHANGED <<envVars, fnVars, MOCK_MODE, probePc, faults, called, store, run, input,
                   processedData, prev, processedRows, skippedRows, itemOutcome, upserts,
                   queryVars>>

\* the batch upload settled: charge a failed batch to errors; next batch
AfterUpsert ==
    /\ pc = "upserting"
    /\ RetryDone
    /\ errorRows' = UploadErrors(retry, batchOperations, errorRows)
    /\ failed' = IF retry.status = "thrown" THEN failed \cup {"upsert"} ELSE failed
    /\ batchOperations' = << >>
    /\ IF itemNo = TotalItems
       THEN ReturnStats(processedRows, skippedRows, errorRows') /\ UNCHANGED itemNo
       ELSE StartItem(itemNo + 1)
    /\ UNCHANGED <<envVars, fnVars, MOCK_MODE, probePc, faults, called, store, run, input,
                   processedData, prev, processedRows, skippedRows, itemOutcome, upserts,
                   queryVars>>

(***************************************************************************)
(* queryRFPData: inputs, pattern matching, filters, stored matches.        *)
(***************************************************************************)
T_hi        == <<"h","i">>
T_hello     == <<"h","e","l","l","o">>
T_hey       == <<"h","e","y">>
T_greetings == <<"g","r","e","e","t","i","n","g","s">>
T_howdy     == <<"h","o","w","d","y">>
T_unknown   == <<"u","n","k","n","o","w","n">>
T_true      == <<"t","r","u","e">>

\* the questions the caller asks
Questions ==
    { T_hi,
      <<"H","e","l","l","o","!">>,
      <<"h","e","y",",">>,
      <<"H","O","W","D","Y"," ",".","!">>,
      T_greetings \o <<"\n">>,
      <<"h","i"," ","t","h","e","r","e">>,
      <<"w","h","i","c","h","?">>,
      <<"c","o","s","t","?">> }

GreetingWords == {T_hi, T_hello, T_hey, T_greetings, T_howdy}
GreetingTrail == WhiteSpace \cup {".", ",", "!"}

\* faulty variant of IsGreeting: the question is matched without toLowerCase()
IsGreeting_CaseSensitive(q) ==
    \E w \in GreetingWords :
       /\ Len(q) >= Len(w)
       /\ SubSeq(q, 1, Len(w)) = w
       /\ \A k \in (Len(w) + 1)..Len(q) : q[k] \in GreetingTrail

\* question.toLowerCase().match(/^(hi|hello|hey|greetings|howdy)[\s\.,!]*$/)
IsGreeting(q) ==
    LET s == ToLowerCase(q)
    IN  \E w \in GreetingWords :
           /\ Len(s) >= Len(w)
           /\ SubSeq(s, 1, Len(w)) = w
           /\ \A k \in (Len(w) + 1)..Len(s) : s[k] \in GreetingTrail

\* excelProcessor.js: toLowerCase().includes('hi') || ...('hello') || ...('hey')
MentionsGreeting(q) ==
    LET s == ToLowerCase(q)
    IN  Includes(s, T_hi) \/ Includes(s, T_hello) \/ Includes(s, T_hey)

\* the filters objects the caller passes: sets of <<key, value>>
FilterSets ==
    { {},
      {<<"category", T_A>>},
      {<<"category", T_A>>, <<"sheetName", T_S1>>},
      {<<"rfpId", <<"r","1">>>>},
      {<<"sheetName", << >>>>} }

\* filters[key] is truthy
Truthy(f, key) == \E p \in f : p[1] = key /\ p[2] # << >>
Field(f, key) == (CHOOSE p \in f : p[1] = key)[2]

\* filterConditions
FilterConditions(f) ==
    IF f # {}
    THEN {[field |-> k, op |-> "$eq", val |-> Field(f, k)] :
             k \in {key \in {"category", "sheetName"} : Truthy(f, key)}}
    ELSE {[field |-> "category", op |-> "$exists", val |-> T_true]}

\* the request body: filter is left out when filterConditions has no keys
QueryRequest(via, fc) ==
    [via |-> via, topK |-> 5, hasFilter |-> fc # {}, filter |-> fc]

\* part_000: one SourceContext, originalData parsed defensively
SafeContext(match) ==
    [text         |-> OrElse(match.metadata.text, << >>),
     originalData |-> IF JsonParseThrows(match.metadata.originalData)
                      THEN << >> ELSE JsonParse(match.metadata.originalData),
     category     |-> OrElse(match.metadata.category, T_unknown),
     sheetName    |-> OrElse(match.metadata.sheetName, T_unknown),
     similarity   |-> match.score]

\* excelProcessor.js: one SourceContext, when JSON.parse does not throw
RawContext(match) ==
    [text         |-> match.metadata.text,
     originalData |-> JsonParse(match.metadata.originalData),
     category     |-> match.metadata.category,
     sheetName    |-> match.metadata.sheetName,
     similarity   |-> match.score]

\* faulty variant of ContextsThrow: originalData is parsed without a guard
ContextsThrow_Unguarded(matches) ==
    \E k \in 1..Len(matches) : JsonParseThrows(matches[k].metadata.originalData)

\* queryResponse.matches.map(...) throws
ContextsThrow(matches) ==
    /\ impl = "excelProcessor"
    /\ \E k \in 1..Len(matches) : JsonParseThrows(matches[k].metadata.originalData)

\* faulty variant of Contexts: the contexts are listed last match first
Contexts_Reversed(matches) ==
    [k \in 1..Len(matches) |->
        IF impl = "part_000" THEN SafeContext(matches[Len(matches) + 1 - k])
        ELSE RawContext(matches[Len(matches) + 1 - k])]

\* queryResponse.matches.map(...)
Contexts(matches) ==
    [k \in 1..Len(matches) |->
        IF impl = "part_000" THEN SafeContext(matches[k]) ELSE RawContext(matches[k])]

\* the context part of the user message
Prompt(ctxs) ==
    [k \in 1..Len(ctxs) |->
        [sheetName |-> ctxs[k].sheetName, category |-> ctxs[k].category,
         text |-> ctxs[k].text]]

TypeError   == [op |-> "TypeError", via |-> "js", attempt |-> 0]
SyntaxError == [op |-> "SyntaxError", via |-> "js", attempt |-> 0]

GreetingResult ==
    [NoResult EXCEPT !.kind = "answer", !.answer = [text |-> "greeting", echo |-> << >>]]
\* faulty variant of DemoResult: the demo answer comes without the mockMode flag
DemoResult_NoFlag(q) ==
    [NoResult EXCEPT !.kind = "answer", !.answer = [text |-> "demo", echo |-> q]]

DemoResult(q) ==
    [NoResult EXCEPT !.kind = "answer", !.answer = [text |-> "demo", echo |-> q],
                     !.mockMode = TRUE]
NoMatchResult ==
    [NoResult EXCEPT !.kind = "answer", !.answer = [text |-> "nomatch", echo |-> << >>]]
FallbackResult(e) ==
    [NoResult EXCEPT !.kind = "answer", !.answer = [text |-> "fallback", echo |-> << >>],
                     !.error = e]
CompletionResult(ctxs) ==
    [NoResult EXCEPT !.kind = "answer", !.answer = [text |-> "completion", echo |-> << >>],
                     !.sources = ctxs]

(***************************************************************************)
(* queryRFPData.                                                           *)
(***************************************************************************)
\* return <res>
Answers(res) ==
    /\ pc' = "idle"
    /\ result' = res
    /\ retry' = IdleRetry

\* faulty variant of Catch: the error is rethrown to the caller
Catch_Rethrows(e) ==
    /\ pc' = "idle"
    /\ result' = [NoResult EXCEPT !.kind = "thrown", !.error = e]
    /\ retry' = IdleRetry

\* the catch block of queryRFPData
Catch(e) ==
    Answers(IF impl = "excelProcessor" /\ MentionsGreeting(question)
            THEN GreetingResult
            ELSE FallbackResult(e))

\* a store query is awaited
StartStoreQuery(via) ==
    /\ pc' = IF via = "sdk" THEN "q_sdkquerying" ELSE "q_querying"
    /\ retry' = WithRetry("query", via, << >>, DefaultMaxRetries, DefaultDelay)
    /\ queries' = Append(queries, QueryRequest(via, FilterConditions(filters)))
    /\ UNCHANGED result

\* the call: the greeting short-circuit of part_000, else the embedding is awaited
QueryRFPData ==
    /\ pc = "idle"
    /\ \E q \in Questions, f \in FilterSets :
          /\ question' = q
          /\ filters' = f
          /\ IF impl = "part_000" /\ IsGreeting(q)
             THEN Answers(GreetingResult)
             ELSE /\ pc' = "q_embedding"
                  /\ retry' = WithRetry("embed", "openai", << >>,
                                        DefaultMaxRetries, DefaultDelay)
                  /\ result' = NoResult
    /\ qDegraded' = MOCK_MODE
    /\ called' = {}
    /\ failed' = {}
    /\ queries' = << >>
    /\ contexts' = << >>
    /\ UNCHANGED <<envVars, fnVars, MOCK_MODE, probePc, faults, store, ingestVars>>

\* the question's embedding settled: filters, the MOCK_MODE branch, the store query
AfterQueryEmbed ==
    /\ pc = "q_embedding"
    /\ RetryDone
    /\ IF retry.status = "thrown"
       THEN Catch(retry.error) /\ UNCHANGED queries
       ELSE IF impl = "part_000" /\ MOCK_MODE
       THEN Answers(DemoResult(question)) /\ UNCHANGED queries
       ELSE IF impl = "excelProcessor" /\ pineconeIndex
       THEN StartStoreQuery("sdk")
       ELSE StartStoreQuery("api")
    /\ failed' = IF retry.status = "thrown" THEN failed \cup {"embed"} ELSE failed
    /\ UNCHANGED <<envVars, fnVars, MOCK_MODE, probePc, faults, called, store, ingestVars,
                   question, filters, qDegraded, contexts>>

\* faulty variant of HandleResponse: matches.length is read without testing
\* that the response has a matches field
HandleResponse_NoFieldGuard(resp) ==
    IF resp.tag = "nomatchesfield"
    THEN Catch(TypeError) /\ UNCHANGED contexts
    ELSE IF Len(resp.matches) = 0
    THEN /\ Answers(IF impl = "excelProcessor" /\ MentionsGreeting(question)
                    THEN GreetingResult ELSE NoMatchResult)
         /\ UNCHANGED contexts
    ELSE IF ContextsThrow(resp.matches)
    THEN Catch(SyntaxError) /\ UNCHANGED contexts
    ELSE /\ contexts' = Contexts(resp.matches)
         /\ pc' = "q_completing"
         /\ retry' = WithRetry("complete", "openai", Prompt(Contexts(resp.matches)),
                               DefaultMaxRetries, DefaultDelay)
         /\ UNCHANGED result

\* a query response arrived: no matches, or contexts and the completion call
HandleResponse(resp) ==
    IF resp.tag = "nomatchesfield" \/ Len(resp.matches) = 0
    THEN /\ Answers(IF impl = "excelProcessor" /\ MentionsGreeting(question)
                    THEN GreetingResult ELSE NoMatchResult)
         /\ UNCHANGED contexts
    ELSE IF ContextsThrow(resp.matches)
    THEN Catch(SyntaxError) /\ UNCHANGED contexts
    ELSE /\ contexts' = Contexts(resp.matches)
         /\ pc' = "q_completing"
         /\ retry' = WithRetry("complete", "openai", Prompt(Contexts(resp.matches)),
                               DefaultMaxRetries, DefaultDelay)
         /\ UNCHANGED result

\* faulty variant of AfterSdkQuery: a failed SDK query goes to the catch block of
\* queryRFPData, without a direct query
AfterSdkQuery_NoFallback ==
    /\ pc = "q_sdkquerying"
    /\ RetryDone
    /\ IF retry.status = "thrown"
       THEN Catch(retry.error) /\ UNCHANGED contexts
       ELSE HandleResponse(retry.value)
    /\ failed' = IF retry.status = "thrown" THEN failed \cup {"sdkquery"} ELSE failed
    /\ UNCHANGED <<envVars, fnVars, MOCK_MODE, probePc, faults, called, store, ingestVars,
                   question, filters, qDegraded, queries>>

\* excelProcessor.js: the SDK query settled; a failure falls back to the direct query
AfterSdkQuery ==
    /\ pc = "q_sdkquerying"
    /\ RetryDone
    /\ IF retry.status = "thrown"
       THEN StartStoreQuery("api") /\ UNCHANGED contexts
       ELSE HandleResponse(retry.value) /\ UNCHANGED queries
    /\ failed' = IF retry.status = "thrown" THEN failed \cup {"sdkquery"} ELSE failed
    /\ UNCHANGED <<envVars, fnVars, MOCK_MODE, probePc, faults, called, store, ingestVars,
                   question, filters, qDegraded>>

\* the direct query settled
AfterQuery ==
    /\ pc = "q_querying"
    /\ RetryDone
    /\ IF retry.status = "thrown"
       THEN Catch(retry.error) /\ UNCHANGED contexts
       ELSE HandleResponse(retry.value)
    /\ failed' = IF retry.status = "thrown" THEN failed \cup {"query"} ELSE failed
    /\ UNCHANGED <<envVars, fnVars, MOCK_MODE, probePc, faults, called, store, ingestVars,
                   question, filters, qDegraded, queries>>

\* the completion settled
AfterComplete ==
    /\ pc = "q_completing"
    /\ RetryDone
    /\ IF retry.status = "thrown"
       THEN Catch(retry.error)
       ELSE IF retry.value.tag = "nochoices"
       THEN Catch(TypeError)
       ELSE Answers(CompletionResult(contexts))
    /\ failed' = IF retry.status = "thrown" THEN failed \cup {"complete"} ELSE failed
    /\ UNCHANGED <<envVars, fnVars, MOCK_MODE, probePc, faults, called, store, ingestVars,
                   queryVars>>

(***************************************************************************)
(* Specifications.                                                         *)
(*   Spec       processExcelRFP calls of one caller, with the startup probe*)
(*   SpecQuery  queryRFPData calls of one caller, with the startup probe   *)
(*   SpecRetry  one withRetry call with arbitrary maxRetries and delay     *)
(***************************************************************************)
InitEnv ==
    /\ impl \in {"part_000", "excelProcessor"}
    /\ pineconeIndex \in (IF impl = "excelProcessor" THEN BOOLEAN ELSE {FALSE})
    /\ storeUp \in BOOLEAN
    /\ MOCK_MODE = FALSE
    /\ probePc = IF impl = "part_000" THEN "pending" ELSE "none"

InitLocals ==
    /\ faults = 0
    /\ called = {}
    /\ result = NoResult
    /\ store = {}
    /\ run = 0
    /\ input = NoInput
    /\ processedData = << >>
    /\ prev = NoPrev
    /\ itemNo = 0
    /\ batchOperations = << >>
    /\ processedRows = 0
    /\ skippedRows = 0
    /\ errorRows = 0
    /\ itemOutcome = << >>
    /\ upserts = << >>
    /\ failed = {}
    /\ question = << >>
    /\ filters = {}
    /\ qDegraded = FALSE
    /\ queries = << >>
    /\ contexts = << >>

Init ==
    /\ InitEnv
    /\ InitLocals
    /\ fnArgs = << >>
    /\ fnOut = << >>
    /\ pc = "idle"
    /\ retry = IdleRetry

Next ==
    \/ StartupProbe
    \/ ProcessExcelRFP
    \/ Loaded
    \/ WithRetryStep
    \/ AfterFetch
    \/ AfterEmbed
    \/ AfterUpsert

Spec == Init /\ [][Next]_vars

NextQuery ==
    \/ StartupProbe
    \/ QueryRFPData
    \/ WithRetryStep
    \/ AfterQueryEmbed
    \/ AfterSdkQuery
    \/ AfterQuery
    \/ AfterComplete

\* the record loop of processExcelRFP when every awaited call settles: a remote
\* attempt resolves or rejects, and the function goes on from the await
RunContinues == WithRetryStep \/ AfterFetch \/ AfterEmbed \/ AfterUpsert

\* the caller makes one call
FirstRun == run = 0 /\ ProcessExcelRFP

NextLive ==
    \/ StartupProbe
    \/ FirstRun
    \/ Loaded
    \/ WithRetryStep
    \/ AfterFetch
    \/ AfterEmbed
    \/ AfterUpsert

SpecLive == Init /\ [][NextLive]_vars /\ WF_vars(RunContinues)

SpecQuery == Init /\ [][NextQuery]_vars

\* the initial delays the harness tries
Delays == {1, 10, 100, 1000, 3000}

InitRetry ==
    /\ impl = "part_000"
    /\ pineconeIndex = FALSE
    /\ storeUp = TRUE
    /\ MOCK_MODE = FALSE
    /\ probePc = "none"
    /\ InitLocals
    /\ fnArgs = << >>
    /\ fnOut = << >>
    /\ pc = "harness"
    /\ \E m \in 0..MaxAttempts, d \in Delays :
          retry = WithRetry("operation", "harness", << >>, m, d)

NextRetry == WithRetryStep

SpecRetry == InitRetry /\ [][NextRetry]_vars

(***************************************************************************)
(* Functions applied on their own.                                         *)
(*   SpecId       generateStableId on two (metadata, item) pairs           *)
(*   SpecExtract  the extraction of processExcelRFP on generated workbooks *)
(***************************************************************************)
\* everything but the arguments, when one function is applied on its own
InitFn ==
    /\ impl = "part_000"
    /\ pineconeIndex = FALSE
    /\ storeUp = TRUE
    /\ MOCK_MODE = FALSE
    /\ probePc = "none"
    /\ InitLocals
    /\ pc = "harness"
    /\ retry = IdleRetry
    /\ fnOut = << >>

UnchangedByFn ==
    UNCHANGED <<envVars, MOCK_MODE, probePc, faults, retry, called, result, store, failed,
                ingestVars, queryVars, fnArgs>>

\* texts around the 50-character prefix: short, of 50 characters, and longer
\* ones that differ at character 50 or only at character 51
IdTexts ==
    LET filler == [k \in 1..(IdPrefixLen - 1) |-> "x"]
    IN  { <<"a">>, filler \o <<"a">>, filler \o <<"a","b">>, filler \o <<"a","c">>,
          filler \o <<"d","b">> }

\* (metadata.rfpId, item.sheetName, item.category, item.text)
IdArgs ==
    [rfpId : {<<"r","1">>, <<"r","2">>}, sheetName : {T_S1, T_S2},
     category : {T_A, T_B}, text : IdTexts]

InitId ==
    /\ InitFn
    /\ fnArgs \in IdArgs \X IdArgs

\* generateStableId(metadata, item) on argument a
IdOf(a) ==
    GenerateStableId([rfpId |-> a.rfpId],
                     [sheetName |-> a.sheetName, category |-> a.category, text |-> a.text])

ApplyGenerateStableId ==
    /\ pc = "harness"
    /\ pc' = "applied"
    /\ fnOut' = <<IdOf(fnArgs[1]), IdOf(fnArgs[2])>>
    /\ UnchangedByFn

NextId == ApplyGenerateStableId

SpecId == InitId /\ [][NextId]_vars

\* what a Category cell can hold: a name, nothing (no cell), or blank text
CategoryCells == {"A", "B", "none", "blank"}

CategoryCell(c) ==
    CASE c = "A"    -> T_A
      [] c = "B"    -> T_B
      [] c = "none" -> Null
      [] OTHER      -> <<" ">>

\* a two-sheet workbook: row k of the first sheet has Category cell cats[k] and
\* question text q<k-th letter>; the second sheet has one row
GenWorkbook(cats) ==
    << [name |-> T_S1,
        rows |-> << <<T_Category, T_Q>> >>
                 \o [k \in 1..Len(cats) |-> <<CategoryCell(cats[k]), <<"q", RowChars[k]>>>>]],
       [name |-> T_S2,
        rows |-> << <<T_Category, T_Q>>, <<T_A, <<"q", RowChars[1]>>>> >>] >>

InitExtract ==
    /\ InitFn
    /\ \E n \in 1..MaxSheetRows : \E cats \in [1..n -> CategoryCells] :
          fnArgs = cats

\* the worksheet loop of processExcelRFP on the workbook of Category cells fnArgs
ApplyExtract ==
    /\ pc = "harness"
    /\ pc' = "applied"
    /\ fnOut' = Extract(GenWorkbook(fnArgs))
    /\ UnchangedByFn

NextExtract == ApplyExtract

SpecExtract == InitExtract /\ [][NextExtract]_vars

(***************************************************************************)
(* processExcelRFP: properties.                                            *)
(***************************************************************************)
\* C1: idempotent re-ingestion.  When processExcelRFP has run twice in a row
\* with the same spreadsheet and metadata, the first run's fetches, embeddings
\* and upserts all succeeding and the second run's fetches succeeding, the
\* second run returns processed = 0 and skipped = totalItems.
C1_IdempotentReingestion ==
    ( /\ pc = "idle"
      /\ result.kind = "stats"
      /\ ~result.mockMode
      /\ "fetch" \notin failed
      /\ prev.returned
      /\ ~prev.mock
      /\ prev.failed = {}
      /\ prev.input.wb = input.wb
      /\ prev.input.rfpId = input.rfpId )
    => /\ result.stats.totalItems = TotalItems
       /\ result.stats.processed = 0
       /\ result.stats.skipped = result.stats.totalItems

\* the large spreadsheet was ingested twice and the second run skipped it all
C1_Witness ==
    /\ pc = "idle"
    /\ result.kind = "stats"
    /\ ~result.mockMode
    /\ failed = {}
    /\ prev.returned /\ ~prev.mock /\ prev.failed = {}
    /\ prev.input.wb = "big" /\ input.wb = "big"
    /\ prev.input.rfpId = input.rfpId
    /\ result.stats.skipped > BATCH_SIZE
    /\ result.stats.processed = 0

\* C2: a batch upload that fails after all retries adds to errors exactly the
\* number of records staged in that batch and leaves processed and skipped,
\* and so what earlier batches contributed, as they were; the run then goes
\* on with the first record of the next batch, or returns these counters when
\* the batch was the last one.
C2_BatchUploadFailure ==
    [][ (pc = "upserting" /\ retry.status = "thrown" /\ pc' # "upserting")
        => /\ batchOperations = upserts[Len(upserts)]
           /\ errorRows' = errorRows + Len(batchOperations)
           /\ processedRows' = processedRows
           /\ skippedRows' = skippedRows
           /\ IF itemNo < TotalItems
              THEN pc' = "fetching" /\ itemNo' = itemNo + 1
              ELSE /\ pc' = "idle"
                   /\ result'.kind = "stats"
                   /\ result'.stats =
                         [totalItems |-> TotalItems, processed |-> processedRows,
                          skipped |-> skippedRows,
                          errors |-> errorRows + Len(batchOperations)] ]_vars

\* the first batch was uploaded, the upload of the smaller second batch failed
C2_Witness ==
    /\ pc = "idle"
    /\ result.kind = "stats"
    /\ storeUp
    /\ failed = {"upsert"}
    /\ Len(upserts) = 2
    /\ Len(upserts[1]) > Len(upserts[2])
    /\ result.stats.errors = Len(upserts[2])
    /\ result.stats.processed = Len(upserts[1]) + Len(upserts[2])

\* C3: per-record isolation.  A record whose embedding fails after all retries
\* adds exactly 1 to errors; the records after it are still examined, so a
\* returned run has examined every record; and every record staged, before
\* or after the failure, is in the payload of its batch's upsert (or still
\* staged for it while the batch is open).
C3_PerRecordIsolation ==
    LET examined == 1..Len(itemOutcome)
        errs == {k \in examined : itemOutcome[k] = "error"}
        BatchOf(k) == (k - 1) \div BATCH_SIZE
        Sent(k) == \E u \in 1..Len(upserts) :
                      /\ \E j \in 1..Len(upserts[u]) : upserts[u][j].item = k
                      /\ \A j \in 1..Len(upserts[u]) :
                            BatchOf(upserts[u][j].item) = BatchOf(k)
        Pending(k) == /\ pc \in {"fetching", "embedding"}
                      /\ BatchOf(k) = BatchOf(itemNo)
                      /\ \E j \in 1..Len(batchOperations) : batchOperations[j].item = k
    IN  /\ "upsert" \notin failed => errorRows = Cardinality(errs)
        /\ \A k \in examined : itemOutcome[k] = "staged" => Sent(k) \/ Pending(k)
        /\ (pc = "idle" /\ result.kind = "stats" /\ ~result.mockMode)
              => Len(itemOutcome) = TotalItems

\* record 3 of the large spreadsheet failed; records 2 and 4 went out together
C3_Witness ==
    /\ pc = "idle"
    /\ result.kind = "stats"
    /\ input.wb = "big"
    /\ Len(itemOutcome) = TotalItems
    /\ itemOutcome[2] = "staged" /\ itemOutcome[3] = "error" /\ itemOutcome[4] = "staged"
    /\ result.stats.errors = 1
    /\ Len(upserts) >= 1
    /\ {2, 4} \subseteq {upserts[1][j].item : j \in 1..Len(upserts[1])}
    /\ 3 \notin {upserts[1][j].item : j \in 1..Len(upserts[1])}

\* C4: a processExcelRFP call made with MOCK_MODE set, on a spreadsheet that
\* loads, makes no store call and no embedding call, and returns success
\* with mockMode and stats {totalItems, processed: totalItems, skipped: 0,
\* errors: 0}.
C4_MockRun ==
    (impl = "part_000" /\ run > 0 /\ input.degraded /\ Loads(input.wb))
    => /\ called = {}
       /\ pc \in {"loading", "idle"}
       /\ pc = "idle"
            => /\ result.kind = "stats"
               /\ result.success
               /\ result.mockMode
               /\ result.stats = [totalItems |-> TotalItems, processed |-> TotalItems,
                                  skipped |-> 0, errors |-> 0]

\* a degraded run of the mixed spreadsheet returned its six records as processed
C4_Witness ==
    /\ pc = "idle"
    /\ input.degraded
    /\ input.wb = "mixed"
    /\ result.mockMode
    /\ result.stats.totalItems = 6
    /\ result.stats.processed = 6

\* C5: with the store unreachable from startup on, no call contacts the
\* store, whenever it is made relative to the startup probe.
C5_UnreachableStoreNeverContacted ==
    (impl = "part_000" /\ ~storeUp) => "store" \notin called

(***************************************************************************)
(* queryRFPData: properties.                                               *)
(***************************************************************************)
\* C6: queryRFPData never raises: whatever the embedding call, the store
\* query and the completion call do, the call settles by returning an object
\* with an answer string and a sources list.
C6_QueryNeverRaises ==
    (pc = "idle" /\ result.kind # "none")
    => /\ result.kind = "answer"
       /\ result.answer.text \in {"greeting", "demo", "nomatch", "fallback", "completion"}
       /\ DOMAIN result.sources = 1..Len(result.sources)
       /\ result.answer.text # "completion" => result.sources = << >>

\* the embedding and the query succeeded, the completion failed, an answer came
C6_Witness ==
    /\ pc = "idle"
    /\ failed = {"complete"}
    /\ "store" \in called
    /\ result.kind = "answer"
    /\ result.error.op = "complete"

\* C7: whenever the embedding, the store query or the completion fails after
\* its retries, queryRFPData returns the fallback answer with empty sources
\* and an error field carrying that failure, whatever the question.
C7_FailureGivesFallback ==
    (pc = "idle" /\ result.kind = "answer" /\ failed \cap {"embed", "query", "complete"} # {})
    => /\ result.answer.text = "fallback"
       /\ result.sources = << >>
       /\ result.error.op \in failed
       /\ result.error.attempt = DefaultMaxRetries

(***************************************************************************)
(* Retry executor: properties.                                             *)
(***************************************************************************)
\* C8: withRetry with maxAttempts = 3 whose operation fails twice and then
\* succeeds returns the operation's result after exactly 3 invocations, having
\* slept initialDelay and then 2 * initialDelay; in general the sleep before
\* retry k is initialDelay * 2^(k-1), one sleep follows every failed attempt
\* but the final one, and no sleep follows the final attempt.
C8_Backoff ==
    /\ \A k \in 1..Len(retry.sleeps) :
          retry.sleeps[k] = retry.initialDelay * 2^(k - 1)
    /\ retry.status = "running" => Len(retry.sleeps) = retry.invocations
    /\ (RetryDone /\ retry.invocations > 0)
          => Len(retry.sleeps) = retry.invocations - 1
    /\ (retry.maxRetries = 3 /\ retry.status = "returned" /\ Len(retry.errors) = 2)
          => /\ retry.invocations = 3
             /\ retry.value # Undefined
             /\ retry.sleeps = <<retry.initialDelay, 2 * retry.initialDelay>>

\* two failures, then success on the third of three attempts
C8_Witness ==
    /\ retry.maxRetries = 3
    /\ retry.initialDelay = DefaultDelay
    /\ retry.status = "returned"
    /\ Len(retry.errors) = 2
    /\ retry.sleeps = <<1000, 2000>>

\* C9: withRetry invokes the operation at most maxAttempts times and never
\* again once an invocation succeeded or the last one failed; when every
\* one of the maxAttempts invocations fails, it throws the error of the last
\* invocation, unchanged.
C9_AtMostMaxAttempts ==
    /\ [](/\ retry.invocations <= retry.maxRetries
          /\ retry.status = "thrown"
                => /\ retry.invocations = retry.maxRetries
                   /\ Len(retry.errors) = retry.maxRetries
                   /\ retry.error = retry.errors[Len(retry.errors)]
                   /\ retry.error.attempt = retry.maxRetries
          /\ (retry.status = "returned" /\ retry.invocations > 0)
                => Len(retry.errors) = retry.invocations - 1)
    /\ [][RetryDone => retry'.invocations = retry.invocations]_vars

\* every one of several attempts failed and the last error came out
C9_Witness ==
    /\ retry.status = "thrown"
    /\ retry.maxRetries = MaxAttempts
    /\ retry.invocations = MaxAttempts
    /\ retry.error.attempt = MaxAttempts

(***************************************************************************)
(* queryRFPData: the greeting short-circuit.                               *)
(***************************************************************************)
\* C10: part_000: a question that is "hi", "Hello!" or "hey," (or any greeting
\* word in any case followed only by white space and . , ! characters) is
\* answered at once with the canned greeting and empty sources, no embedding
\* call and no store call having been made.
C10_GreetingShortCircuit ==
    ( /\ impl = "part_000"
      /\ question \in { <<"h","i">>, <<"H","e","l","l","o","!">>, <<"h","e","y",",">>,
                        <<"H","O","W","D","Y"," ",".","!">>,
                        <<"g","r","e","e","t","i","n","g","s","\n">> } )
    => /\ pc = "idle"
       /\ result.kind = "answer"
       /\ result.answer.text = "greeting"
       /\ result.sources = << >>
       /\ result.error = NoError
       /\ called = {}
       /\ queries = << >>

\* "Hello!" was asked and the greeting came back
C10_Witness ==
    /\ impl = "part_000"
    /\ question = <<"H","e","l","l","o","!">>
    /\ pc = "idle"
    /\ result.answer.text = "greeting"
    /\ called = {}

(***************************************************************************)
(* queryRFPData: degraded mode, matches, contexts.                         *)
(***************************************************************************)
\* C11 as stated: a queryRFPData call made in degraded mode with a question
\* that is no greeting returns the demo answer echoing the question, with
\* mockMode and empty sources, and makes no store query and no completion
\* call.
C11_DegradedQueryAlwaysDemo ==
    ( /\ impl = "part_000"
      /\ qDegraded
      /\ pc = "idle"
      /\ question \in { <<"h","i"," ","t","h","e","r","e">>, <<"w","h","i","c","h","?">>,
                        <<"c","o","s","t","?">> } )
    => /\ result.kind = "answer"
       /\ result.answer = [text |-> "demo", echo |-> question]
       /\ result.mockMode
       /\ result.sources = << >>
       /\ "store" \notin called
       /\ "complete" \notin called

\* C11 amended: such a call makes no store query and no completion call; it
\* returns the demo answer echoing the question, with mockMode and empty
\* sources, when the embedding of the question succeeds, and the fallback
\* answer with the embedding's error when the embedding fails after retries.
C11_DegradedQueryDemo ==
    ( /\ impl = "part_000"
      /\ qDegraded
      /\ question \in { <<"h","i"," ","t","h","e","r","e">>, <<"w","h","i","c","h","?">>,
                        <<"c","o","s","t","?">> } )
    => /\ "store" \notin called
       /\ "complete" \notin called
       /\ queries = << >>
       /\ pc \in {"idle", "q_embedding"}
       /\ pc = "idle"
            => /\ result.kind = "answer"
               /\ result.sources = << >>
               /\ IF "embed" \in failed
                  THEN /\ result.answer.text = "fallback"
                       /\ result.error.op = "embed"
                       /\ ~result.mockMode
                  ELSE /\ result.answer = [text |-> "demo", echo |-> question]
                       /\ result.mockMode
                       /\ result.error = NoError

\* "cost?" was asked in degraded mode, embedded, and answered by the demo text
C11_Witness ==
    /\ impl = "part_000"
    /\ qDegraded
    /\ pc = "idle"
    /\ question = <<"c","o","s","t","?">>
    /\ called = {"embed"}
    /\ result.answer = [text |-> "demo", echo |-> question]
    /\ result.mockMode

\* C12: part_000: a match whose stored originalData is malformed JSON does not
\* abort the query: its SourceContext gets an empty originalData and keeps its
\* other fields, the contexts of the other matches are what they are without
\* it, the completion call is made, and the result has no error field when
\* the completion answers (an error field, if any, is the completion's).
C12_MalformedOriginalData ==
    /\ [][ ( /\ impl = "part_000"
             /\ pc = "q_querying"
             /\ pc' # "q_querying"
             /\ retry.status = "returned"
             /\ retry.value.tag = "matches"
             /\ \E k \in 1..Len(retry.value.matches) :
                   retry.value.matches[k].metadata.originalData.kind = "malformed" )
           => /\ pc' = "q_completing"
              /\ retry'.op = "complete"
              /\ retry'.status = "running"
              /\ Len(contexts') = Len(retry.value.matches)
              /\ \A k \in 1..Len(retry.value.matches) :
                    LET match == retry.value.matches[k]
                    IN  /\ contexts'[k].similarity = match.score
                        /\ match.metadata.originalData.kind = "malformed"
                              => contexts'[k] =
                                   [text |-> <<"u">>, originalData |-> << >>,
                                    category |-> <<"B">>, sheetName |-> <<"S","2">>,
                                    similarity |-> 80]
                        /\ match.metadata.originalData.kind = "json"
                              => contexts'[k] =
                                   [text |-> <<"t">>,
                                    originalData |-> match.metadata.originalData.value,
                                    category |-> <<"A">>, sheetName |-> <<"S","1">>,
                                    similarity |-> 90] ]_vars
    /\ []( (impl = "part_000" /\ pc = "idle" /\ contexts # << >>)
            => /\ result.error.op \in {"none", "complete", "TypeError"}
               /\ result.answer.text = "completion"
                     => result.error = NoError /\ result.sources = contexts )

\* a well-formed and a malformed match were both answered from, without error
C12_Witness ==
    /\ impl = "part_000"
    /\ pc = "idle"
    /\ result.answer.text = "completion"
    /\ result.error = NoError
    /\ Len(result.sources) = 2
    /\ result.sources[1].similarity = 90
    /\ result.sources[1].originalData # << >>
    /\ result.sources[2].similarity = 80
    /\ result.sources[2].originalData = << >>
    /\ result.sources[2].text = <<"u">>

\* C13: part_000: a query that reached the store and whose response has zero
\* matches, or no matches field, returns the "no relevant information" answer
\* with empty sources and no error; the completion capability is not called
\* in that query.
C13_NoMatches ==
    [][ ( /\ impl = "part_000"
          /\ pc = "q_querying"
          /\ pc' # "q_querying"
          /\ retry.status = "returned"
          /\ \/ retry.value.tag = "nomatchesfield"
             \/ retry.value.tag = "matches" /\ retry.value.matches = << >> )
        => /\ pc' = "idle"
           /\ result'.kind = "answer"
           /\ result'.answer = [text |-> "nomatch", echo |-> << >>]
           /\ result'.sources = << >>
           /\ result'.error = NoError
           /\ ~result'.mockMode
           /\ "complete" \notin called' ]_vars

\* the store answered without a matches field and the canned answer came back
C13_Witness ==
    /\ impl = "part_000"
    /\ pc = "idle"
    /\ result.answer.text = "nomatch"
    /\ called = {"embed", "store"}
    /\ Len(queries) = 1

(***************************************************************************)
(* processExcelRFP: further properties.                                    *)
(***************************************************************************)
\* C14: fail-open duplicate check.  When the fetch for a record has failed on
\* all attempts, the record goes on to its embedding with skipped and errors
\* as they were; and a record whose embedding returns is staged for its
\* batch's upsert and counted once in processed, not in skipped or errors.
C14_FetchFailOpen ==
    [][ /\ (pc = "fetching" /\ retry.status = "thrown" /\ pc' # "fetching")
            => /\ pc' = "embedding"
               /\ retry'.op = "embed"
               /\ retry'.status = "running"
               /\ itemNo' = itemNo
               /\ skippedRows' = skippedRows
               /\ errorRows' = errorRows
               /\ processedRows' = processedRows
               /\ itemOutcome' = itemOutcome
        /\ (pc = "embedding" /\ retry.status = "returned" /\ pc' # "embedding")
            => /\ processedRows' = processedRows + 1
               /\ skippedRows' = skippedRows
               /\ errorRows' = errorRows
               /\ itemOutcome' = Append(itemOutcome, "staged")
               /\ Len(batchOperations') = Len(batchOperations) + 1
               /\ batchOperations'[Len(batchOperations')] =
                     [id |-> GenerateStableId([rfpId |-> input.rfpId],
                                              processedData[itemNo]),
                      item |-> itemNo] ]_vars

\* a record stored by a first run was embedded again by a second run whose
\* fetch for it failed, and was the only record processed
C14_Witness ==
    /\ pc = "idle"
    /\ result.kind = "stats"
    /\ storeUp
    /\ failed = {"fetch"}
    /\ prev.returned /\ ~prev.mock /\ prev.failed = {}
    /\ prev.input.wb = "mixed" /\ input.wb = "mixed"
    /\ result.stats = [totalItems |-> 6, processed |-> 1, skipped |-> 5, errors |-> 0]

(***************************************************************************)
(* generateStableId: properties.                                           *)
(***************************************************************************)
\* C15: generateStableId depends on (rfpId, sheetName, category, the first 50
\* characters of text) only: two argument tuples that agree on these four
\* give the same id, in particular texts that differ only after character
\* 50; two tuples that differ in exactly one of the four give different ids
\* (the hash being taken as injective).
C15_StableIdFunction ==
    pc = "applied"
    => LET a == fnArgs[1]
           b == fnArgs[2]
           Prefix(t) == IF Len(t) <= 50 THEN t ELSE SubSeq(t, 1, 50)
           differ == {f \in {"rfpId", "sheetName", "category", "prefix"} :
                        CASE f = "rfpId"     -> a.rfpId # b.rfpId
                          [] f = "sheetName" -> a.sheetName # b.sheetName
                          [] f = "category"  -> a.category # b.category
                          [] OTHER           -> Prefix(a.text) # Prefix(b.text)}
       IN  /\ differ = {} => fnOut[1] = fnOut[2]
           /\ Cardinality(differ) = 1 => fnOut[1] # fnOut[2]

\* two different texts that agree on their first 50 characters got one id
C15_Witness ==
    /\ pc = "applied"
    /\ fnArgs[1].text # fnArgs[2].text
    /\ Len(fnArgs[1].text) > 50
    /\ Len(fnArgs[2].text) > 50
    /\ fnOut[1] = fnOut[2]

(***************************************************************************)
(* Record extraction: properties.                                          *)
(***************************************************************************)
\* C16 as stated: the extracted records keep the order of the sheets and,
\* within each sheet, the order of the sheet's rows, whatever the rows'
\* Category values are.
C16_RowOrderPreserved ==
    pc = "applied"
    => \A i, j \in 1..Len(fnOut) :
          i < j =>
            LET RowOf(r) == CHOOSE k \in 1..Len(RowChars) :
                               RowChars[k] = r.text[Len(r.text)]
            IN  \/ fnOut[i].sheetName = <<"S","1">> /\ fnOut[j].sheetName = <<"S","2">>
                \/ /\ fnOut[i].sheetName = fnOut[j].sheetName
                   /\ RowOf(fnOut[i]) < RowOf(fnOut[j])

\* C16 amended: the extracted records keep the order of the sheets; within a
\* sheet the records of one Category value are contiguous and keep the order
\* of their rows.  (Rows of different categories that are interleaved in the
\* sheet do not keep their row order.)
C16_OrderWithinCategory ==
    pc = "applied"
    => LET RowOf(r) == CHOOSE k \in 1..Len(RowChars) :
                          RowChars[k] = r.text[Len(r.text)]
       IN  /\ \A i, j \in 1..Len(fnOut) :
                 i < j =>
                   /\ ~(fnOut[i].sheetName = <<"S","2">> /\ fnOut[j].sheetName = <<"S","1">>)
                   /\ ( /\ fnOut[i].sheetName = fnOut[j].sheetName
                        /\ fnOut[i].category = fnOut[j].category )
                      => /\ RowOf(fnOut[i]) < RowOf(fnOut[j])
                         /\ \A m \in i..j : fnOut[m].category = fnOut[i].category
           /\ Len(fnOut) = Len(fnArgs) + 1

\* rows A, B, A came out as rows 1, 3, 2, then the second sheet's row
C16_Witness ==
    /\ pc = "applied"
    /\ fnArgs = <<"A", "B", "A">>
    /\ Len(fnOut) = 4
    /\ fnOut[1].originalData[2].val = <<"q","a">>
    /\ fnOut[2].originalData[2].val = <<"q","c">>
    /\ fnOut[3].originalData[2].val = <<"q","b">>
    /\ fnOut[4].sheetName = <<"S","2">>

\* C17: every record extracted from a row that has no Category field carries
\* category = "uncategorized".
C17_MissingCategoryUncategorized ==
    pc = "applied"
    => \A i \in 1..Len(fnOut) :
          LET row == CHOOSE k \in 1..Len(RowChars) :
                        RowChars[k] = fnOut[i].text[Len(fnOut[i].text)]
          IN  (fnOut[i].sheetName = <<"S","1">> /\ fnArgs[row] = "none")
                 => fnOut[i].category =
                      <<"u","n","c","a","t","e","g","o","r","i","z","e","d">>

(***************************************************************************)
(* Degraded mode: properties.                                              *)
(***************************************************************************)
\* C18: MOCK_MODE is decided by the one startup probe: the probe settles at
\* most once, the flag changes at most once, from false to true, only in the
\* step in which the probe settles, and never back; no step of a call
\* (whatever the store, the embedding or the completion did) changes it.
C18_FlagSetOnceByProbe ==
    /\ []( /\ MOCK_MODE => (impl = "part_000" /\ probePc = "done")
           /\ impl = "part_000" => probePc \in {"pending", "done"} )
    /\ [][ /\ probePc' # probePc => (probePc = "pending" /\ probePc' = "done")
           /\ MOCK_MODE' # MOCK_MODE
                => /\ ~MOCK_MODE /\ MOCK_MODE'
                   /\ probePc = "pending" /\ probePc' = "done"
                   /\ pc' = pc /\ retry' = retry /\ result' = result
           /\ (pc' # pc \/ retry' # retry \/ result' # result \/ store' # store)
                => MOCK_MODE' = MOCK_MODE ]_vars

\* the store was reachable and used by a run, the probe had failed all the same
C18_Witness ==
    /\ impl = "part_000"
    /\ storeUp
    /\ MOCK_MODE
    /\ probePc = "done"
    /\ pc = "idle"
    /\ run = MaxRuns
    /\ result.kind = "stats"
    /\ ~result.mockMode
    /\ store # {}

\* C19: an ingestion result carries mockMode exactly when the run took the
\* MOCK_MODE branch: a run that finds MOCK_MODE set after extraction returns
\* at once with the flag, having contacted nothing; a run that finds it
\* unset never returns the flag, and contacts the store unless it extracted
\* no record; so a run that contacted the store returns without the flag.
C19_MockFlagIffDegradedBranch ==
    /\ []( (pc = "idle" /\ result.kind = "stats")
             => /\ result.mockMode
                     => (impl = "part_000" /\ MOCK_MODE /\ called = {} /\ upserts = << >>)
                /\ "store" \in called => ~result.mockMode
                /\ (~result.mockMode /\ result.stats.totalItems > 0)
                     => "store" \in called )
    /\ [][ (pc = "loading" /\ pc' # "loading" /\ input.wb # "corrupt")
            => IF impl = "part_000" /\ MOCK_MODE
               THEN pc' = "idle" /\ result'.kind = "stats" /\ result'.mockMode
               ELSE /\ ~result'.mockMode
                    /\ pc' = "idle" => Len(processedData') = 0 ]_vars

\* the probe failed while a run was using the store: that run returned
\* without the flag
C19_Witness ==
    /\ impl = "part_000"
    /\ MOCK_MODE
    /\ pc = "idle"
    /\ result.kind = "stats"
    /\ ~result.mockMode
    /\ "store" \in called
    /\ result.stats.processed > 0

\* C20: when loading the spreadsheet fails, processExcelRFP rejects with the
\* error the load rejected with, returns no stats, and makes no fetch, no
\* embedding and no upsert call, whether MOCK_MODE is set or not.
C20_LoadFailurePropagates ==
    (run > 0 /\ input.wb = "corrupt")
    => /\ called = {}
       /\ upserts = << >>
       /\ pc \in {"loading", "idle"}
       /\ pc = "idle"
            => /\ result.kind = "thrown"
               /\ result.error = [op |-> "load", via |-> "exceljs", attempt |-> 1]
               /\ ~result.success
               /\ ~result.mockMode
               /\ result.stats = NoStats

\* a call made in degraded mode with an unreadable buffer was rejected
C20_Witness ==
    /\ input.wb = "corrupt"
    /\ input.degraded
    /\ MOCK_MODE
    /\ pc = "idle"
    /\ result.kind = "thrown"
    /\ result.error.op = "load"

(***************************************************************************)
(* processExcelRFP: order of the remote calls, counters, batches.          *)
(***************************************************************************)
\* C21: ingestion is strictly sequential.  A remote call is started only when
\* no other one is in flight; the embedding of a record starts from the
\* settled fetch of that same record; records are fetched in order, one after
\* the other; the upsert of a batch starts after the fetch or embedding of
\* the batch's last record has settled, and the first fetch of the next batch
\* starts only when the upsert has settled or nothing was staged.
C21_StrictlySequential ==
    [][ /\ (retry'.status = "running" /\ retry'.invocations = 0 /\ retry' # retry)
            => retry.status # "running"
        /\ (pc' = "embedding" /\ pc # "embedding")
            => /\ pc = "fetching" /\ RetryDone /\ retry.op = "fetch"
               /\ itemNo' = itemNo
               /\ retry.arg = <<GenerateStableId([rfpId |-> input.rfpId],
                                                 processedData[itemNo])>>
        /\ (pc' = "fetching" /\ (pc # "fetching" \/ itemNo' # itemNo))
            => /\ itemNo' = itemNo + 1
               /\ retry'.op = "fetch" /\ retry'.invocations = 0
               /\ pc \in {"loading", "fetching", "embedding", "upserting"}
               /\ pc = "loading" <=> itemNo = 0
               /\ (itemNo > 0 /\ itemNo % BATCH_SIZE = 0)
                     => /\ batchOperations' = << >>
                        /\ \/ pc = "upserting" /\ RetryDone
                           \/ pc \in {"fetching", "embedding"} /\ batchOperations = << >>
               /\ (itemNo % BATCH_SIZE # 0) => pc \in {"fetching", "embedding"}
        /\ (pc' = "upserting" /\ pc # "upserting")
            => /\ pc \in {"fetching", "embedding"} /\ RetryDone
               /\ itemNo' = itemNo
               /\ itemNo % BATCH_SIZE = 0 \/ itemNo = Len(processedData)
               /\ retry'.op = "upsert" /\ retry'.invocations = 0
               /\ \A k \in 1..Len(batchOperations') :
                     (batchOperations'[k].item - 1) \div BATCH_SIZE
                        = (itemNo - 1) \div BATCH_SIZE ]_vars

\* a run over two batches has returned: ten records uploaded, then two
C21_Witness ==
    /\ pc = "idle"
    /\ result.kind = "stats"
    /\ Len(processedData) > BATCH_SIZE
    /\ Len(upserts) = 2
    /\ Len(upserts[1]) = BATCH_SIZE
    /\ Len(upserts[2]) = Len(processedData) - BATCH_SIZE

\* C24: the counters never go down.  Within one ingestion run no step makes
\* processed, skipped or errors smaller, the step that settles a failed batch
\* upload included; and the stats a run that went through the store returns
\* are the counters as they then stand.
C24_CountersMonotonic ==
    [][ run' = run
          => /\ processedRows' >= processedRows
             /\ skippedRows' >= skippedRows
             /\ errorRows' >= errorRows
             /\ (pc = "upserting" /\ pc' # "upserting")
                   => processedRows' = processedRows /\ skippedRows' = skippedRows
             /\ (pc # "idle" /\ pc' = "idle" /\ result'.kind = "stats"
                    /\ ~result'.mockMode)
                   => /\ result'.stats.processed = processedRows'
                      /\ result'.stats.skipped = skippedRows'
                      /\ result'.stats.errors = errorRows' ]_vars

\* the upload of the first batch has failed after its ten records were counted
\* as processed, and the run goes on with the eleventh record
C24_Witness ==
    /\ pc = "fetching"
    /\ itemNo = BATCH_SIZE + 1
    /\ "upsert" \in failed
    /\ processedRows = BATCH_SIZE
    /\ errorRows = BATCH_SIZE
    /\ skippedRows = 0

\* C25: a record found in the store is skipped.  When the fetch for a record
\* returns and reports the record's stable id present, the step that handles
\* the answer adds exactly 1 to skipped, leaves processed and errors alone,
\* does not start an embedding and stages nothing; and no record handled as
\* skipped is among the staged records or in any upsert of the run.
C25_PresentRecordSkipped ==
    /\ [][ (pc = "fetching" /\ retry.status = "returned" /\ retry' # retry
              /\ GenerateStableId([rfpId |-> input.rfpId], processedData[itemNo])
                    \in retry.value.vectors)
            => /\ skippedRows' = skippedRows + 1
               /\ processedRows' = processedRows
               /\ errorRows' = errorRows
               /\ itemOutcome' = Append(itemOutcome, "skipped")
               /\ pc' # "embedding"
               /\ retry'.op # "embed"
               /\ batchOperations' = batchOperations
               /\ upserts' \in {upserts, Append(upserts, batchOperations)}
               /\ store' = store ]_vars
    /\ [](\A k \in 1..Len(itemOutcome) :
             itemOutcome[k] = "skipped"
                => /\ \A j \in 1..Len(batchOperations) : batchOperations[j].item # k
                   /\ \A u \in 1..Len(upserts) :
                         \A j \in 1..Len(upserts[u]) : upserts[u][j].item # k)

\* a first run over twelve records skipped the eleventh, a repetition of the
\* first, after the first batch had been uploaded
C25_Witness ==
    /\ pc = "idle"
    /\ result.kind = "stats"
    /\ run = 1
    /\ failed = {}
    /\ Len(itemOutcome) = BATCH_SIZE + 2
    /\ itemOutcome[BATCH_SIZE + 1] = "skipped"
    /\ result.stats.skipped = 1
    /\ result.stats.processed = BATCH_SIZE + 1
    /\ Len(upserts) = 2 /\ Len(upserts[2]) = 1

\* C26: batches of ten.  The records are taken in extraction order in
\* consecutive batches of 10 (records 1-10, 11-20, ...; the last one possibly
\* shorter).  Every upsert call of a run carries between 1 and 10 records, all
\* of one batch, in record order and exactly the ones that batch staged; the
\* calls are made batch after batch, at most one per batch, and none for a
\* batch that staged nothing.
C26_BatchesOfTen ==
    \A u \in 1..Len(upserts) :
       /\ Len(upserts[u]) \in 1..10
       /\ LET ops == upserts[u]
              b   == (ops[1].item - 1) \div 10
          IN  /\ \A j \in 1..Len(ops) :
                    /\ ops[j].item \in (10 * b + 1)..(10 * b + 10)
                    /\ ops[j].item <= Len(processedData)
                    /\ ops[j].id = GenerateStableId([rfpId |-> input.rfpId],
                                                    processedData[ops[j].item])
              /\ \A j \in 1..(Len(ops) - 1) : ops[j].item < ops[j + 1].item
              /\ {ops[j].item : j \in 1..Len(ops)}
                    = {k \in 1..Len(itemOutcome) :
                          (k - 1) \div 10 = b /\ itemOutcome[k] = "staged"}
              /\ \A v \in 1..(u - 1) : upserts[v][1].item <= 10 * b

\* a second run found the whole first batch in the store, made no upsert
\* call for it, and uploaded the one record the second batch staged
C26_Witness ==
    /\ pc = "idle"
    /\ result.kind = "stats"
    /\ run = 2
    /\ Len(itemOutcome) = 12
    /\ \A k \in 1..10 : itemOutcome[k] = "skipped"
    /\ Len(upserts) = 1
    /\ Len(upserts[1]) = 1
    /\ upserts[1][1].item = 12

\* C27: a run terminates within its attempt budget.  When every remote call
\* settles, a processExcelRFP run that has reached its record loop ends by
\* returning stats.  A fetch, embedding or upsert is attempted at most 3
\* times and gives up only after the 3rd failure; each record gets one fetch
\* and at most one embedding; each batch gets at most one upsert, and after
\* its upsert has settled, failed or not, the run moves to the next batch or
\* returns.
C27_RunTerminates ==
    /\ [](retry.op \in {"fetch", "embed", "upsert"}
            => /\ retry.maxRetries = 3
               /\ retry.invocations <= 3
               /\ retry.status = "thrown" => retry.invocations = 3)
    /\ [][ /\ (retry'.op = "fetch" /\ retry'.invocations = 0 /\ retry' # retry)
               => itemNo' = itemNo + 1
           /\ (retry'.op = "embed" /\ retry'.invocations = 0 /\ retry' # retry)
               => retry.op = "fetch" /\ itemNo' = itemNo
           /\ (retry'.op = "upsert" /\ retry'.invocations = 0 /\ retry' # retry)
               => /\ retry.op \in {"fetch", "embed"}
                  /\ upserts' = Append(upserts, batchOperations')
           /\ (pc = "upserting" /\ RetryDone /\ retry' # retry)
               => /\ \/ pc' = "fetching" /\ itemNo' = itemNo + 1
                     \/ pc' = "idle" /\ result'.kind = "stats"
                  /\ batchOperations' = << >> ]_vars
    /\ (pc \in {"fetching", "embedding", "upserting"})
          ~> (pc = "idle" /\ result.kind = "stats" /\ ~result.mockMode
                /\ Len(itemOutcome) = Len(processedData))

\* a run has returned after three failed attempts of a fetch, of an embedding
\* and of an upsert
C27_Witness ==
    /\ pc = "idle"
    /\ result.kind = "stats"
    /\ ~result.mockMode
    /\ failed = {"fetch", "embed", "upsert"}
    /\ result.stats.totalItems > BATCH_SIZE
    /\ result.stats.errors > 1

(***************************************************************************)
(* processExcelRFP: the two gateways.                                      *)
(***************************************************************************)
\* what a run shows of itself, the gateway left out: where it stands, its
\* counters, the staged records, the operation in flight with its argument
\* and attempts, whether a settled fetch found the record, the upsert
\* payloads so far and what was returned
Seen ==
    [pc |-> pc, itemNo |-> itemNo,
     processed |-> processedRows, skipped |-> skippedRows, errors |-> errorRows,
     staged |-> batchOperations,
     op |-> retry.op, arg |-> retry.arg, attempts |-> retry.invocations,
     status |-> retry.status,
     found |-> retry.op = "fetch" /\ retry.status = "returned"
                  /\ retry.arg[1] \in retry.value.vectors,
     upserts |-> upserts,
     returned |-> result.kind,
     stats |-> result.stats]

\* the loop of excelProcessor.js, lines 303-365, on what is seen: the fetch
\* of record k of data
SeenFetch(o, data, rfpId, k) ==
    [o EXCEPT !.pc = "fetching", !.itemNo = k, !.op = "fetch",
              !.arg = <<GenerateStableId([rfpId |-> rfpId], data[k])>>,
              !.attempts = 0, !.status = "running", !.found = FALSE]

\* after record o.itemNo, with staged records ops and counters p, s, e
SeenNextItem(o, data, rfpId, ops, p, s, e) ==
    LET c == [o EXCEPT !.staged = ops, !.processed = p, !.skipped = s, !.errors = e]
    IN  IF o.itemNo % 10 # 0 /\ o.itemNo # Len(data)
        THEN SeenFetch(c, data, rfpId, o.itemNo + 1)
        ELSE IF ops # << >>
        THEN [c EXCEPT !.pc = "upserting", !.op = "upsert",
                       !.arg = [j \in 1..Len(ops) |-> ops[j].id],
                       !.attempts = 0, !.status = "running", !.found = FALSE,
                       !.upserts = Append(o.upserts, ops)]
        ELSE IF o.itemNo = Len(data)
        THEN [c EXCEPT !.pc = "idle", !.op = "none", !.arg = << >>, !.attempts = 0,
                       !.status = "idle", !.found = FALSE, !.returned = "stats",
                       !.stats = [totalItems |-> Len(data), processed |-> p,
                                  skipped |-> s, errors |-> e]]
        ELSE SeenFetch(c, data, rfpId, o.itemNo + 1)

\* what is seen after the settled call of o has been handled
SeenStep(o, data, rfpId) ==
    CASE o.pc = "fetching" ->
            IF o.found
            THEN SeenNextItem(o, data, rfpId, o.staged, o.processed, o.skipped + 1,
                              o.errors)
            ELSE [o EXCEPT !.pc = "embedding", !.op = "embed", !.arg = << >>,
                           !.attempts = 0, !.status = "running", !.found = FALSE]
      [] o.pc = "embedding" ->
            IF o.status = "returned"
            THEN SeenNextItem(o, data, rfpId,
                              Append(o.staged,
                                     [id |-> GenerateStableId([rfpId |-> rfpId],
                                                              data[o.itemNo]),
                                      item |-> o.itemNo]),
                              o.processed + 1, o.skipped, o.errors)
            ELSE SeenNextItem(o, data, rfpId, o.staged, o.processed, o.skipped,
                              o.errors + 1)
      [] OTHER ->
            LET e == IF o.status = "thrown" THEN o.errors + Len(o.staged) ELSE o.errors
            IN  SeenNextItem([o EXCEPT !.staged = << >>], data, rfpId, << >>,
                             o.processed, o.skipped, e)

\* C28: the gateways are interchangeable for ingestion.  Whatever the file
\* (excelProcessor.js with the SDK index initialised or not, part_000 when it
\* does not take its degraded branch), a run follows one and the same
\* course, fixed by the record list and the outcomes of the calls: it starts
\* with the fetch of the first record (or returns zero stats for an empty
\* list); an attempt changes nothing but the call in flight; and after a
\* call has settled, the next operation, its argument, the counters, the
\* staged records, the upsert payloads and the returned stats are the ones
\* the loop of excelProcessor.js gives for that outcome.
C28_GatewaysInterchangeable ==
    [][ /\ (pc = "loading" /\ pc' # "loading" /\ Loads(input.wb)
              /\ ~(impl = "part_000" /\ MOCK_MODE))
            => /\ processedData' = Extract(Workbook(input.wb))
               /\ Seen' = IF Len(processedData') = 0
                          THEN [Seen EXCEPT !.pc = "idle", !.returned = "stats"]
                          ELSE SeenFetch(Seen, processedData', input.rfpId, 1)
        /\ (pc \in {"fetching", "embedding", "upserting"} /\ retry.status = "running"
              /\ retry' # retry)
            => /\ Seen'.attempts = Seen.attempts + 1
               /\ Seen'.status = "thrown" => Seen'.attempts = 3
               /\ Seen'.status = "running" => Seen'.attempts < 3
               /\ Seen' = [Seen EXCEPT !.attempts = Seen'.attempts,
                                       !.status = Seen'.status,
                                       !.found = Seen'.found]
        /\ (pc \in {"fetching", "embedding", "upserting"} /\ RetryDone
              /\ retry' # retry)
            => Seen' = SeenStep(Seen, processedData, input.rfpId) ]_vars

\* a run through the SDK gateway returned after staging and uploading
\* records, failing an embedding and skipping a record
C28_Witness ==
    /\ pc = "idle"
    /\ result.kind = "stats"
    /\ impl = "excelProcessor" /\ pineconeIndex
    /\ failed = {"embed"}
    /\ Len(upserts) = 2
    /\ result.stats.skipped >= 1
    /\ result.stats.processed >= 1
    /\ result.stats.errors = 1

(***************************************************************************)
(* processExcelRFP: accounting at the return.                              *)
(***************************************************************************)
\* C30: at the return of a run that went through the store, every extracted
\* record is counted in exactly one counter:
\* processed + skipped + errors = totalItems.
C30_EveryRecordCountedOnce ==
    (pc = "idle" /\ result.kind = "stats" /\ ~result.mockMode)
        => result.stats.processed + result.stats.skipped + result.stats.errors
              = result.stats.totalItems

\* C31: within one run each stable id is embedded and staged at most once.
\* No two records staged for a batch, and no two records of an upsert call,
\* have the same id; and a record whose id was staged earlier in the run,
\* in its own batch or in a batch whose upload has not failed, is handled as
\* skipped, not staged again.
C31_EachIdStagedOnce ==
    /\ \A j1, j2 \in 1..Len(batchOperations) :
          j1 # j2 => batchOperations[j1].id # batchOperations[j2].id
    /\ \A u \in 1..Len(upserts) :
          \A j1, j2 \in 1..Len(upserts[u]) :
             j1 # j2 => upserts[u][j1].id # upserts[u][j2].id
    /\ \A k \in 1..Len(itemOutcome) :
          (\E j \in 1..(k - 1) :
              /\ itemOutcome[j] = "staged"
              /\ (j - 1) \div BATCH_SIZE = (k - 1) \div BATCH_SIZE
              /\ GenerateStableId([rfpId |-> input.rfpId], processedData[j])
                    = GenerateStableId([rfpId |-> input.rfpId], processedData[k]))
             => itemOutcome[k] = "skipped"

(***************************************************************************)
(* queryRFPData: further properties.                                       *)
(***************************************************************************)
\* C22: sources follow the store's ranking.  When a store query (asked with
\* topK = 5) returns one or more matches and the contexts are built, there is
\* exactly one context per match, the k-th context made from the k-th match,
\* and the prompt handed to the completion lists them in that order; when the
\* completion then answers, the returned sources are that same list.
C22_SourcesInStoreOrder ==
    [][ /\ (pc \in {"q_querying", "q_sdkquerying"} /\ pc' = "q_completing")
            => LET matches == retry.value.matches
               IN  /\ queries[Len(queries)].topK = 5
                   /\ Len(matches) >= 1
                   /\ Len(contexts') = Len(matches)
                   /\ \A k \in 1..Len(matches) :
                         /\ contexts'[k].similarity = matches[k].score
                         /\ contexts'[k].text \in {matches[k].metadata.text, << >>}
                         /\ contexts'[k].category
                               \in {matches[k].metadata.category, T_unknown}
                         /\ contexts'[k].sheetName
                               \in {matches[k].metadata.sheetName, T_unknown}
                   /\ Len(retry'.arg) = Len(matches)
                   /\ \A k \in 1..Len(matches) :
                         /\ retry'.arg[k].text = contexts'[k].text
                         /\ retry'.arg[k].category = contexts'[k].category
                         /\ retry'.arg[k].sheetName = contexts'[k].sheetName
        /\ (pc = "q_completing" /\ pc' = "idle" /\ result'.answer.text = "completion")
            => /\ result'.sources = contexts
               /\ Len(result'.sources) >= 1 ]_vars

\* a query answered from two matches the store ranked 80 before 90
C22_Witness ==
    /\ pc = "idle"
    /\ result.kind = "answer"
    /\ result.answer.text = "completion"
    /\ ~qDegraded
    /\ Len(queries) = 1
    /\ Len(result.sources) = 2
    /\ result.sources[1].similarity = 80
    /\ result.sources[2].similarity = 90

\* C23: every store query carries a filter.  Each query of the running call
\* has a non-empty filter: the "category exists" condition when the caller's
\* filters object is empty, and otherwise the caller's category and
\* sheetName entries as equality conditions.
C23_EveryQueryFiltered ==
    \A k \in 1..Len(queries) :
       /\ queries[k].hasFilter
       /\ queries[k].filter # {}
       /\ filters = {}
             => queries[k].filter
                   = {[field |-> "category", op |-> "$exists", val |-> T_true]}
       /\ filters # {}
             => queries[k].filter
                   = {[field |-> p[1], op |-> "$eq", val |-> p[2]] :
                         p \in {e \in filters : e[1] \in {"category", "sheetName"}}}

\* C29: the direct query of excelProcessor.js.  In a queryRFPData call of
\* excelProcessor.js a direct-protocol query is issued exactly when the SDK
\* index is not initialised (then it is the call's only query) or the SDK
\* query has failed on all 3 attempts (then it follows that one SDK query);
\* an SDK query that returned is never followed by a direct query; and the
\* direct query starts with a fresh budget of 3 attempts and the initial
\* delay, whatever the SDK query used up.
C29_DirectQueryFallback ==
    /\ [](impl = "excelProcessor"
            => /\ Len(queries) <= 2
               /\ \A k \in 1..Len(queries) :
                     queries[k].via = "api"
                        <=> \/ ~pineconeIndex /\ k = 1
                            \/ pineconeIndex /\ k = 2 /\ "sdkquery" \in failed
               /\ "sdkquery" \in failed
                     => Len(queries) = 2 /\ queries[1].via = "sdk"
               /\ pc = "q_querying"
                     => /\ retry.via = "api" /\ retry.op = "query"
                        /\ retry.maxRetries = 3 /\ retry.initialDelay = 1000
                        /\ retry.invocations <= 3
                        /\ retry.status = "thrown" => retry.invocations = 3)
    /\ [][ impl = "excelProcessor"
            => /\ (pc = "q_embedding" /\ retry.status = "returned" /\ retry' # retry)
                  => IF pineconeIndex
                     THEN pc' = "q_sdkquerying" /\ Len(queries') = 1
                             /\ queries'[1].via = "sdk"
                     ELSE pc' = "q_querying" /\ Len(queries') = 1
                             /\ queries'[1].via = "api"
               /\ (pc = "q_sdkquerying" /\ retry.status = "thrown" /\ retry' # retry)
                  => /\ retry.invocations = 3
                     /\ pc' = "q_querying"
                     /\ queries' = Append(queries, [queries[1] EXCEPT !.via = "api"])
                     /\ retry'.invocations = 0 /\ retry'.i = 0
                     /\ retry'.delay = 1000 /\ retry'.sleeps = << >>
                     /\ retry'.status = "running"
               /\ (pc = "q_sdkquerying" /\ retry.status = "returned" /\ retry' # retry)
                  => /\ pc' # "q_querying"
                     /\ queries' = queries
               /\ (pc # "q_querying" /\ pc' = "q_querying")
                  => pc \in {"q_embedding", "q_sdkquerying"} ]_vars

\* the SDK query failed three times, the direct query that followed was
\* answered, and the call returned the completion's answer
C29_Witness ==
    /\ pc = "idle"
    /\ impl = "excelProcessor" /\ pineconeIndex
    /\ result.kind = "answer"
    /\ result.answer.text = "completion"
    /\ failed = {"sdkquery"}
    /\ Len(queries) = 2
    /\ queries[1].via = "sdk" /\ queries[2].via = "api"

=============================================================================
